---------------------------- MODULE Spec2Model ----------------------------
(***************************************************************************)
(* The Mattermost message-action adapter                                   *)
(* (src/extensions/mattermost/src/actions.ts): listActions and the         *)
(* dispatcher handleMattermostAction, with every await a step of its own.  *)
(*                                                                         *)
(* A JavaScript string is a sequence of atoms.  The atom " " is white      *)
(* space and the atom "/" is a slash; every other atom is a run of         *)
(* characters holding neither.  A JavaScript value is a record tagged      *)
(* with the value typeof would report, so that `typeof raw !== "string"`,  *)
(* `??` and truthiness are computed as the code computes them.             *)
(***************************************************************************)
EXTENDS Integers, Sequences, FiniteSets, TLC

(*************************** the invocations' state ************************)
(* One entry per invocation slot.  The module itself holds no state: what   *)
(* an invocation knows lives in its own frame.                              *)

VARIABLES
    ctx,      \* the call in the slot: its operation and its arguments
    frame,    \* where the call stands: idle, returned, awaiting, resolved, rejected
    clients,  \* the client handles the call has created, in order
    calls,    \* the remote calls the call has issued, in order
    settles   \* how each of those calls has settled, in order

(***************************** JavaScript values ***************************)

Undef == [t |-> "undefined"]

Null == [t |-> "null"]

Str(s) == [t |-> "string", s |-> s]

Bool(b) == [t |-> "boolean", b |-> b]

Num(n) == [t |-> "number", n |-> n]

\* x ?? y takes y exactly when x is null or undefined
Nullish(v) == v.t \in {"undefined", "null"}

Coalesce(v, w) == IF Nullish(v) THEN w ELSE v

\* Boolean(v), and the test of `if (!v)`, `a && b`, `a || b`
Truthy(v) ==
    CASE v.t = "string" -> v.s # <<>>
      [] v.t = "boolean" -> v.b
      [] v.t = "number" -> v.n # 0
      [] v.t = "array" -> TRUE
      [] v.t = "object" -> TRUE
      [] OTHER -> FALSE

IsSpace(a) == a = " "

RECURSIVE TrimStart(_)
TrimStart(s) ==
    IF s # <<>> /\ IsSpace(Head(s)) THEN TrimStart(Tail(s)) ELSE s

RECURSIVE TrimEnd(_)
TrimEnd(s) ==
    IF s # <<>> /\ IsSpace(s[Len(s)]) THEN TrimEnd(SubSeq(s, 1, Len(s) - 1)) ELSE s

\* String.prototype.trim
Trim(s) == TrimEnd(TrimStart(s))

\* s.replace(/\/+$/, "")
RECURSIVE StripTrailingSlashes(_)
StripTrailingSlashes(s) ==
    IF s # <<>> /\ s[Len(s)] = "/"
    THEN StripTrailingSlashes(SubSeq(s, 1, Len(s) - 1))
    ELSE s

Range(s) == {s[k] : k \in 1..Len(s)}

\* the message of an error contains the word w
Mentions(message, w) == w \in Range(message)

Error(name, message) == [name |-> name, message |-> message]

\* a call that returned v, and a call that threw e
Ok(v) == [thrown |-> FALSE, v |-> v]

Throw(e) == [thrown |-> TRUE, error |-> e]


(*********** openclaw/plugin-sdk: the parameter readers and the gate ********)
(* Imported at actions.ts:2-11; their code is not part of the sources at   *)
(* hand.  They are modelled from the specification (a required parameter   *)
(* that is missing or blank fails naming the field; a gate is open unless  *)
(* its flag is false) and from the options the call sites pass: `trim:     *)
(* false` at actions.ts:71 is what keeps a value untrimmed, `allowEmpty:   *)
(* true` at actions.ts:70 is what lets an empty value through.             *)

\* readStringParam(params, key, { required, trim, allowEmpty })
readStringParam(params, key, required, trim, allowEmpty) ==
    LET raw == params[key]
        missing == IF required
                   THEN Throw(Error("ValidationError", <<key, " required">>))
                   ELSE Ok(Undef)
    IN  IF raw.t # "string"
        THEN missing
        ELSE LET value == IF trim THEN Trim(raw.s) ELSE raw.s
             IN  IF value = <<>> /\ ~allowEmpty THEN missing ELSE Ok(Str(value))

\* readNumberParam(params, key, { integer: true }), not required: a number
\* is passed on, anything else reads as undefined
readNumberParam(params, key) ==
    IF params[key].t = "number" THEN Ok(params[key]) ELSE Ok(Undef)

\* readReactionParams(params, { removeErrorMessage }): the emoji is a
\* required string that may be empty, remove is true only for the boolean
\* true, and removing with an empty emoji fails with removeErrorMessage
readReactionParams(params, removeErrorMessage) ==
    LET remove == params["remove"].t = "boolean" /\ params["remove"].b
        emoji == readStringParam(params, "emoji", TRUE, TRUE, TRUE)
    IN  IF emoji.thrown
        THEN emoji
        ELSE IF remove /\ ~Truthy(emoji.v)
             THEN Throw(Error("ValidationError", removeErrorMessage))
             ELSE Ok([emoji |-> emoji.v, remove |-> remove])

\* createActionGate(actions)(key): open unless actions[key] === false
createActionGate(actions, key) ==
    IF actions.t # "object" THEN TRUE ELSE actions.flags[key] # Bool(FALSE)

\* JSON.stringify of an object: a member whose value is undefined is left
\* out of the text; the members kept are the object's serialized form
JSONStringify(object) ==
    [key \in {k \in DOMAIN object : object[k] # Undef} |-> object[key]]

\* jsonResult(payload): the payload is handed back as the result's details
jsonResult(payload) == [details |-> payload]

(*************** ./mattermost/accounts.js, ./mattermost/client.js **********)
(* Imported at actions.ts:13-32; modelled from the specification, sections *)
(* 4.1 and 4.2.  A configuration is [enabled, accounts, actions]: accounts *)
(* is the sequence of configured accounts, in configuration order, each    *)
(* [accountId, enabled, botToken, baseUrl].                                *)

\* the accounts that are not disabled, in configuration order; none when
\* the integration itself is disabled
listEnabledMattermostAccounts(cfg) ==
    IF cfg.enabled = Bool(FALSE)
    THEN <<>>
    ELSE LET enabled(a) == a.enabled # Bool(FALSE)
         IN  SelectSeq(cfg.accounts, enabled)

\* the account named accountId, the default account when none is named;
\* a ConfigurationError when the configuration holds no such account
DEFAULT_ACCOUNT_ID == <<"default">>

resolveMattermostAccount(cfg, accountId) ==
    LET id == IF Nullish(accountId) THEN DEFAULT_ACCOUNT_ID ELSE accountId.s
        matches == {k \in 1..Len(cfg.accounts) : cfg.accounts[k].accountId = id}
    IN  IF matches = {}
        THEN Throw(Error("ConfigurationError",
                         <<"Mattermost account \"">> \o id \o <<"\" is not configured">>))
        ELSE Ok(cfg.accounts[CHOOSE k \in matches : \A j \in matches : k <= j])

\* normalizeMattermostBaseUrl(raw): trailing slashes stripped
normalizeMattermostBaseUrl(raw) ==
    IF raw.t # "string" THEN Undef ELSE Str(StripTrailingSlashes(raw.s))

\* createMattermostClient({ baseUrl, botToken }): a fresh handle
API_PATH == <<"/", "api", "/", "v4">>

createMattermostClient(baseUrl, botToken) ==
    [baseUrl |-> baseUrl, apiBaseUrl |-> baseUrl \o API_PATH, token |-> botToken]


(************************ actions.ts: resolveClient ************************)

\* the outcome of a step of the dispatcher: it threw, it is suspended at an
\* await with the remote call it has just issued, or it returned
Rejected(error) == [pc |-> "rejected", error |-> error]

Awaiting(fn, client, args, loc) ==
    [pc |-> "awaiting", fn |-> fn, client |-> client, args |-> args, loc |-> loc]

Resolved(result) == [pc |-> "resolved", result |-> result]

\* resolveClient testing the token as configured, untrimmed
resolveClientUntrimmedToken(cfg, accountId) ==
    LET account == resolveMattermostAccount(cfg, accountId)
    IN  IF account.thrown
        THEN account
        ELSE LET token == account.v.botToken
                 baseUrl == normalizeMattermostBaseUrl(account.v.baseUrl)
             IN  IF ~Truthy(token)
                 THEN Throw(Error("Error",
                          <<"Mattermost ", "bot token", " missing for account \"">>
                          \o account.v.accountId \o <<"\"">>))
                 ELSE IF ~Truthy(baseUrl)
                 THEN Throw(Error("Error",
                          <<"Mattermost ", "baseUrl", " missing for account \"">>
                          \o account.v.accountId \o <<"\"">>))
                 ELSE Ok([client |-> createMattermostClient(baseUrl.s, token.s),
                          accountId |-> account.v.accountId])

\* resolveClient keeping the client it built in a module-level cache and
\* handing it to every invocation that starts while it is in use
resolveClientCached(cfg, accountId) ==
    LET account == resolveMattermostAccount(cfg, accountId)
        inUse == {j \in DOMAIN clients : clients[j] # <<>>}
    IN  IF account.thrown
        THEN account
        ELSE IF inUse # {}
        THEN Ok([client |-> clients[CHOOSE j \in inUse : TRUE][1],
                 accountId |-> account.v.accountId])
        ELSE LET token == IF account.v.botToken.t = "string"
                          THEN Str(Trim(account.v.botToken.s))
                          ELSE Undef
                 baseUrl == normalizeMattermostBaseUrl(account.v.baseUrl)
             IN  IF ~Truthy(token)
                 THEN Throw(Error("Error",
                          <<"Mattermost ", "bot token", " missing for account \"">>
                          \o account.v.accountId \o <<"\"">>))
                 ELSE IF ~Truthy(baseUrl)
                 THEN Throw(Error("Error",
                          <<"Mattermost ", "baseUrl", " missing for account \"">>
                          \o account.v.accountId \o <<"\"">>))
                 ELSE Ok([client |-> createMattermostClient(baseUrl.s, token.s),
                          accountId |-> account.v.accountId])

resolveClient(cfg, accountId) ==
    LET account == resolveMattermostAccount(cfg, accountId)
    IN  IF account.thrown
        THEN account
        ELSE LET token == IF account.v.botToken.t = "string"
                          THEN Str(Trim(account.v.botToken.s))
                          ELSE Undef
                 baseUrl == normalizeMattermostBaseUrl(account.v.baseUrl)
             IN  IF ~Truthy(token)
                 THEN Throw(Error("Error",
                          <<"Mattermost ", "bot token", " missing for account \"">>
                          \o account.v.accountId \o <<"\"">>))
                 ELSE IF ~Truthy(baseUrl)
                 THEN Throw(Error("Error",
                          <<"Mattermost ", "baseUrl", " missing for account \"">>
                          \o account.v.accountId \o <<"\"">>))
                 ELSE Ok([client |-> createMattermostClient(baseUrl.s, token.s),
                          accountId |-> account.v.accountId])

\* resolveChannelId preferring to over channelId
resolveChannelIdToFirst(params) ==
    LET to == readStringParam(params, "to", FALSE, TRUE, FALSE)
    IN  IF to.thrown \/ ~Nullish(to.v)
        THEN to
        ELSE readStringParam(params, "channelId", TRUE, TRUE, FALSE)

resolveChannelId(params) ==
    LET channelId == readStringParam(params, "channelId", FALSE, TRUE, FALSE)
    IN  IF channelId.thrown \/ ~Nullish(channelId.v)
        THEN channelId
        ELSE readStringParam(params, "to", TRUE, TRUE, FALSE)

(******************** actions.ts: handleMattermostAction *******************)

\* the actions that take a messageId and make one call with it
PostCall(action) ==
    CASE action = "reactions" -> "getMattermostReactions"
      [] action = "delete" -> "deleteMattermostPost"
      [] action = "pin" -> "pinMattermostPost"
      [] action = "unpin" -> "unpinMattermostPost"

\* send reading media as it reads the other parameters, trimmed
actionSendTrimmedMedia(c, accountId) ==
    LET to == readStringParam(c.params, "to", TRUE, TRUE, FALSE)
        message == readStringParam(c.params, "message", TRUE, TRUE, TRUE)
        mediaUrl == readStringParam(c.params, "media", FALSE, TRUE, FALSE)
        replyTo == readStringParam(c.params, "replyTo", FALSE, TRUE, FALSE)
    IN  IF to.thrown THEN Rejected(to.error)
        ELSE IF message.thrown THEN Rejected(message.error)
        ELSE Awaiting("sendMessageMattermost", Undef,
                      [to |-> to.v, message |-> message.v,
                       accountId |-> Coalesce(accountId, Undef),
                       mediaUrl |-> Coalesce(mediaUrl.v, Undef),
                       replyToId |-> Coalesce(replyTo.v, Undef)],
                      [action |-> "send"])

actionSend(c, accountId) ==
    LET to == readStringParam(c.params, "to", TRUE, TRUE, FALSE)
        message == readStringParam(c.params, "message", TRUE, TRUE, TRUE)
        mediaUrl == readStringParam(c.params, "media", FALSE, FALSE, FALSE)
        replyTo == readStringParam(c.params, "replyTo", FALSE, TRUE, FALSE)
    IN  IF to.thrown THEN Rejected(to.error)
        ELSE IF message.thrown THEN Rejected(message.error)
        ELSE Awaiting("sendMessageMattermost", Undef,
                      [to |-> to.v, message |-> message.v,
                       accountId |-> Coalesce(accountId, Undef),
                       mediaUrl |-> Coalesce(mediaUrl.v, Undef),
                       replyToId |-> Coalesce(replyTo.v, Undef)],
                      [action |-> "send"])

REMOVE_ERROR_MESSAGE ==
    <<"Removing a Mattermost reaction requires an ", "emoji", " name.">>

\* react reading its emoji as an optional parameter
actionReactEmojiOptional(c, accountId) ==
    LET messageId == readStringParam(c.params, "messageId", TRUE, TRUE, FALSE)
        emoji == readStringParam(c.params, "emoji", FALSE, TRUE, TRUE)
        remove == c.params["remove"] = Bool(TRUE)
        resolved == resolveClient(c.cfg, accountId)
    IN  IF messageId.thrown THEN Rejected(messageId.error)
        ELSE IF resolved.thrown THEN Rejected(resolved.error)
        ELSE Awaiting("fetchMattermostMe", resolved.v.client, [none |-> TRUE],
                      [action |-> "react", messageId |-> messageId.v,
                       emoji |-> emoji.v, remove |-> remove])

actionReact(c, accountId) ==
    LET messageId == readStringParam(c.params, "messageId", TRUE, TRUE, FALSE)
        reaction == readReactionParams(c.params, REMOVE_ERROR_MESSAGE)
        resolved == resolveClient(c.cfg, accountId)
    IN  IF messageId.thrown THEN Rejected(messageId.error)
        ELSE IF reaction.thrown THEN Rejected(reaction.error)
        ELSE IF resolved.thrown THEN Rejected(resolved.error)
        ELSE Awaiting("fetchMattermostMe", resolved.v.client, [none |-> TRUE],
                      [action |-> "react", messageId |-> messageId.v,
                       emoji |-> reaction.v.emoji, remove |-> reaction.v.remove])

\* reactions, delete, pin, unpin
actionOnPost(c, accountId) ==
    LET messageId == readStringParam(c.params, "messageId", TRUE, TRUE, FALSE)
        resolved == resolveClient(c.cfg, accountId)
    IN  IF messageId.thrown THEN Rejected(messageId.error)
        ELSE IF resolved.thrown THEN Rejected(resolved.error)
        ELSE Awaiting(PostCall(c.action), resolved.v.client,
                      [postId |-> messageId.v],
                      [action |-> c.action, messageId |-> messageId.v])

actionRead(c, accountId) ==
    LET channelId == resolveChannelId(c.params)
        limit == readNumberParam(c.params, "limit")
        before == readStringParam(c.params, "before", FALSE, TRUE, FALSE)
        after == readStringParam(c.params, "after", FALSE, TRUE, FALSE)
        resolved == resolveClient(c.cfg, accountId)
    IN  IF channelId.thrown THEN Rejected(channelId.error)
        ELSE IF resolved.thrown THEN Rejected(resolved.error)
        ELSE Awaiting("getMattermostChannelPosts", resolved.v.client,
                      [channelId |-> channelId.v,
                       perPage |-> Coalesce(limit.v, Undef),
                       before |-> Coalesce(before.v, Undef),
                       after |-> Coalesce(after.v, Undef)],
                      [action |-> "read", channelId |-> channelId.v])

\* edit reading its message with allowEmpty, as send does
actionEditAllowEmpty(c, accountId) ==
    LET messageId == readStringParam(c.params, "messageId", TRUE, TRUE, FALSE)
        message == readStringParam(c.params, "message", TRUE, TRUE, TRUE)
        resolved == resolveClient(c.cfg, accountId)
    IN  IF messageId.thrown THEN Rejected(messageId.error)
        ELSE IF message.thrown THEN Rejected(message.error)
        ELSE IF resolved.thrown THEN Rejected(resolved.error)
        ELSE Awaiting("updateMattermostPost", resolved.v.client,
                      [postId |-> messageId.v, message |-> message.v],
                      [action |-> "edit"])

actionEdit(c, accountId) ==
    LET messageId == readStringParam(c.params, "messageId", TRUE, TRUE, FALSE)
        message == readStringParam(c.params, "message", TRUE, TRUE, FALSE)
        resolved == resolveClient(c.cfg, accountId)
    IN  IF messageId.thrown THEN Rejected(messageId.error)
        ELSE IF message.thrown THEN Rejected(message.error)
        ELSE IF resolved.thrown THEN Rejected(resolved.error)
        ELSE Awaiting("updateMattermostPost", resolved.v.client,
                      [postId |-> messageId.v, message |-> message.v],
                      [action |-> "edit"])

actionListPins(c, accountId) ==
    LET channelId == resolveChannelId(c.params)
        resolved == resolveClient(c.cfg, accountId)
    IN  IF channelId.thrown THEN Rejected(channelId.error)
        ELSE IF resolved.thrown THEN Rejected(resolved.error)
        ELSE Awaiting("getPinnedMattermostPosts", resolved.v.client,
                      [channelId |-> channelId.v],
                      [action |-> "list-pins", channelId |-> channelId.v])

unsupportedAction(c) ==
    Rejected(Error("Error",
        <<"Action ", c.action, " is ", "not supported", " for Mattermost.">>))

\* the dispatcher taking every unlisted action name for send
handleMattermostActionSendByDefault(c) ==
    LET accountId ==
            Coalesce(c.accountId,
                     readStringParam(c.params, "accountId", FALSE, TRUE, FALSE).v)
    IN  CASE c.action = "react" -> actionReact(c, accountId)
          [] c.action = "reactions" -> actionOnPost(c, accountId)
          [] c.action = "read" -> actionRead(c, accountId)
          [] c.action = "edit" -> actionEdit(c, accountId)
          [] c.action \in {"delete", "pin", "unpin"} -> actionOnPost(c, accountId)
          [] c.action = "list-pins" -> actionListPins(c, accountId)
          [] OTHER -> actionSend(c, accountId)

\* the dispatcher taking the accountId of the parameters before the one of
\* its context
handleMattermostActionParamsFirst(c) ==
    LET accountId ==
            Coalesce(readStringParam(c.params, "accountId", FALSE, TRUE, FALSE).v,
                     c.accountId)
    IN  CASE c.action = "send" -> actionSend(c, accountId)
          [] c.action = "react" -> actionReact(c, accountId)
          [] c.action = "reactions" -> actionOnPost(c, accountId)
          [] c.action = "read" -> actionRead(c, accountId)
          [] c.action = "edit" -> actionEdit(c, accountId)
          [] c.action \in {"delete", "pin", "unpin"} -> actionOnPost(c, accountId)
          [] c.action = "list-pins" -> actionListPins(c, accountId)
          [] OTHER -> unsupportedAction(c)

\* the dispatcher refusing an action whose gate is closed, as listActions
\* leaves it out
handleMattermostActionGated(c) ==
    LET accountId ==
            Coalesce(c.accountId,
                     readStringParam(c.params, "accountId", FALSE, TRUE, FALSE).v)
        gate == CASE c.action \in {"react", "reactions"} -> "reactions"
                  [] c.action \in {"read", "edit", "delete"} -> "messages"
                  [] c.action \in {"pin", "unpin", "list-pins"} -> "pins"
                  [] OTHER -> "none"
    IN  IF gate # "none" /\ ~createActionGate(c.cfg.actions, gate)
        THEN unsupportedAction(c)
        ELSE CASE c.action = "send" -> actionSend(c, accountId)
               [] c.action = "react" -> actionReact(c, accountId)
               [] c.action = "reactions" -> actionOnPost(c, accountId)
               [] c.action = "read" -> actionRead(c, accountId)
               [] c.action = "edit" -> actionEdit(c, accountId)
               [] c.action \in {"delete", "pin", "unpin"} -> actionOnPost(c, accountId)
               [] c.action = "list-pins" -> actionListPins(c, accountId)
               [] OTHER -> unsupportedAction(c)

\* the dispatcher from its entry to its first await, or to its throw
handleMattermostAction(c) ==
    LET accountId ==
            Coalesce(c.accountId,
                     readStringParam(c.params, "accountId", FALSE, TRUE, FALSE).v)
    IN  CASE c.action = "send" -> actionSend(c, accountId)
          [] c.action = "react" -> actionReact(c, accountId)
          [] c.action = "reactions" -> actionOnPost(c, accountId)
          [] c.action = "read" -> actionRead(c, accountId)
          [] c.action = "edit" -> actionEdit(c, accountId)
          [] c.action \in {"delete", "pin", "unpin"} -> actionOnPost(c, accountId)
          [] c.action = "list-pins" -> actionListPins(c, accountId)
          [] OTHER -> unsupportedAction(c)


\* post?.field of result.posts[id]
PostField(posts, id, field) ==
    IF id \in DOMAIN posts THEN posts[id][field] ELSE Undef

Arr(items) == [t |-> "array", items |-> items]

resumeSend(f, reply) ==
    \* { ok: true, ...result }: a field of the result wins over ok
    Resolved(jsonResult(reply @@ [ok |-> Bool(TRUE)]))

\* react adding the reaction whatever the remove flag says
resumeReactAlwaysAdd(f, reply) ==
    CASE f.fn = "fetchMattermostMe" ->
            Awaiting("addMattermostReaction", f.client,
                     [userId |-> reply.id, postId |-> f.loc.messageId,
                      emojiName |-> f.loc.emoji],
                     f.loc)
      [] f.fn = "removeMattermostReaction" ->
            Resolved(jsonResult([ok |-> Bool(TRUE), removed |-> Bool(TRUE),
                                 emoji |-> f.loc.emoji]))
      [] f.fn = "addMattermostReaction" ->
            Resolved(jsonResult([ok |-> Bool(TRUE), added |-> f.loc.emoji]))

resumeReact(f, reply) ==
    CASE f.fn = "fetchMattermostMe" ->
            Awaiting(IF f.loc.remove THEN "removeMattermostReaction"
                                     ELSE "addMattermostReaction",
                     f.client,
                     [userId |-> reply.id, postId |-> f.loc.messageId,
                      emojiName |-> f.loc.emoji],
                     f.loc)
      [] f.fn = "removeMattermostReaction" ->
            Resolved(jsonResult([ok |-> Bool(TRUE), removed |-> Bool(TRUE),
                                 emoji |-> f.loc.emoji]))
      [] f.fn = "addMattermostReaction" ->
            Resolved(jsonResult([ok |-> Bool(TRUE), added |-> f.loc.emoji]))

resumeReactions(f, reply) ==
    IF reply.t # "array"
    THEN \* reactions.map of a value that is no array
         Rejected(Error("TypeError", <<"Cannot read properties of ", reply.t>>))
    ELSE Resolved(jsonResult(
            [ok |-> Bool(TRUE), messageId |-> f.loc.messageId,
             reactions |-> Arr([k \in 1..Len(reply.items) |->
                                 [userId |-> reply.items[k].user_id,
                                  emoji |-> reply.items[k].emoji_name,
                                  createdAt |-> reply.items[k].create_at]])]))

\* read passing root_id and file_ids on as the server sent them
resumeReadPassingOptionals(f, reply) ==
    LET message(id) ==
            [id |-> PostField(reply.posts, id, "id"),
             userId |-> PostField(reply.posts, id, "user_id"),
             message |-> PostField(reply.posts, id, "message"),
             createdAt |-> PostField(reply.posts, id, "create_at"),
             rootId |-> PostField(reply.posts, id, "root_id"),
             fileIds |-> PostField(reply.posts, id, "file_ids")]
    IN  Resolved(jsonResult(
            [ok |-> Bool(TRUE), channelId |-> f.loc.channelId,
             messages |-> Arr([k \in 1..Len(reply.order) |-> message(reply.order[k])])]))

\* read walking the posts mapping in key order instead of `order`
resumeReadByKeys(f, reply) ==
    LET keys == SelectSeq(<<"p1", "p2", "p3">>, LAMBDA id : id \in DOMAIN reply.posts)
        message(id) ==
            LET root_id == PostField(reply.posts, id, "root_id")
                file_ids == PostField(reply.posts, id, "file_ids")
            IN  [id |-> PostField(reply.posts, id, "id"),
                 userId |-> PostField(reply.posts, id, "user_id"),
                 message |-> PostField(reply.posts, id, "message"),
                 createdAt |-> PostField(reply.posts, id, "create_at"),
                 rootId |-> IF Truthy(root_id) THEN root_id ELSE Undef,
                 fileIds |-> IF file_ids.t = "array" /\ Len(file_ids.items) # 0
                             THEN file_ids ELSE Undef]
    IN  Resolved(jsonResult(
            [ok |-> Bool(TRUE), channelId |-> f.loc.channelId,
             messages |-> Arr([k \in 1..Len(keys) |-> message(keys[k])])]))

resumeRead(f, reply) ==
    LET message(id) ==
            LET root_id == PostField(reply.posts, id, "root_id")
                file_ids == PostField(reply.posts, id, "file_ids")
            IN  [id |-> PostField(reply.posts, id, "id"),
                 userId |-> PostField(reply.posts, id, "user_id"),
                 message |-> PostField(reply.posts, id, "message"),
                 createdAt |-> PostField(reply.posts, id, "create_at"),
                 rootId |-> IF Truthy(root_id) THEN root_id ELSE Undef,
                 fileIds |-> IF file_ids.t = "array" /\ Len(file_ids.items) # 0
                             THEN file_ids ELSE Undef]
    IN  Resolved(jsonResult(
            [ok |-> Bool(TRUE), channelId |-> f.loc.channelId,
             messages |-> Arr([k \in 1..Len(reply.order) |-> message(reply.order[k])])]))

resumeEdit(f, reply) ==
    Resolved(jsonResult([ok |-> Bool(TRUE), messageId |-> reply.id,
                         message |-> reply.message]))

resumeOnPost(f, reply) ==
    CASE f.fn = "deleteMattermostPost" ->
            Resolved(jsonResult([ok |-> Bool(TRUE), messageId |-> f.loc.messageId,
                                 deleted |-> Bool(TRUE)]))
      [] f.fn = "pinMattermostPost" ->
            Resolved(jsonResult([ok |-> Bool(TRUE), messageId |-> f.loc.messageId,
                                 pinned |-> Bool(TRUE)]))
      [] f.fn = "unpinMattermostPost" ->
            Resolved(jsonResult([ok |-> Bool(TRUE), messageId |-> f.loc.messageId,
                                 unpinned |-> Bool(TRUE)]))

resumeListPins(f, reply) ==
    LET pin(id) ==
            [id |-> PostField(reply.posts, id, "id"),
             userId |-> PostField(reply.posts, id, "user_id"),
             message |-> PostField(reply.posts, id, "message"),
             createdAt |-> PostField(reply.posts, id, "create_at")]
    IN  Resolved(jsonResult(
            [ok |-> Bool(TRUE), channelId |-> f.loc.channelId,
             pins |-> Arr([k \in 1..Len(reply.order) |-> pin(reply.order[k])])]))

\* the dispatcher taking a failed removal for a reaction already gone
resumeMattermostActionLenientRemove(f, settled) ==
    IF settled.thrown /\ f.fn = "removeMattermostReaction"
    THEN Resolved(jsonResult([ok |-> Bool(TRUE), removed |-> Bool(TRUE),
                              emoji |-> f.loc.emoji]))
    ELSE IF settled.thrown
    THEN Rejected(settled.error)
    ELSE CASE f.fn = "sendMessageMattermost" -> resumeSend(f, settled.v)
           [] f.fn \in {"fetchMattermostMe", "removeMattermostReaction",
                        "addMattermostReaction"} -> resumeReact(f, settled.v)
           [] f.fn = "getMattermostReactions" -> resumeReactions(f, settled.v)
           [] f.fn = "getMattermostChannelPosts" -> resumeRead(f, settled.v)
           [] f.fn = "updateMattermostPost" -> resumeEdit(f, settled.v)
           [] f.fn \in {"deleteMattermostPost", "pinMattermostPost",
                        "unpinMattermostPost"} -> resumeOnPost(f, settled.v)
           [] f.fn = "getPinnedMattermostPosts" -> resumeListPins(f, settled.v)

\* the dispatcher issuing a failed remote call once more before it gives up
resumeMattermostActionRetryOnce(f, settled) ==
    IF settled.thrown /\ "retried" \notin DOMAIN f.loc
    THEN [f EXCEPT !.loc = [retried |-> TRUE] @@ f.loc]
    ELSE IF settled.thrown
    THEN Rejected(settled.error)
    ELSE CASE f.fn = "sendMessageMattermost" -> resumeSend(f, settled.v)
           [] f.fn \in {"fetchMattermostMe", "removeMattermostReaction",
                        "addMattermostReaction"} -> resumeReact(f, settled.v)
           [] f.fn = "getMattermostReactions" -> resumeReactions(f, settled.v)
           [] f.fn = "getMattermostChannelPosts" -> resumeRead(f, settled.v)
           [] f.fn = "updateMattermostPost" -> resumeEdit(f, settled.v)
           [] f.fn \in {"deleteMattermostPost", "pinMattermostPost",
                        "unpinMattermostPost"} -> resumeOnPost(f, settled.v)
           [] f.fn = "getPinnedMattermostPosts" -> resumeListPins(f, settled.v)

\* the dispatcher from the await it is suspended at, whose call has settled
\* with `settled`, to its next await, its return or its throw
resumeMattermostAction(f, settled) ==
    IF settled.thrown
    THEN Rejected(settled.error)
    ELSE CASE f.fn = "sendMessageMattermost" -> resumeSend(f, settled.v)
           [] f.fn \in {"fetchMattermostMe", "removeMattermostReaction",
                        "addMattermostReaction"} -> resumeReact(f, settled.v)
           [] f.fn = "getMattermostReactions" -> resumeReactions(f, settled.v)
           [] f.fn = "getMattermostChannelPosts" -> resumeRead(f, settled.v)
           [] f.fn = "updateMattermostPost" -> resumeEdit(f, settled.v)
           [] f.fn \in {"deleteMattermostPost", "pinMattermostPost",
                        "unpinMattermostPost"} -> resumeOnPost(f, settled.v)
           [] f.fn = "getPinnedMattermostPosts" -> resumeListPins(f, settled.v)

(************************** actions.ts: listActions ************************)

\* Set.prototype.add, the set kept as the sequence Array.from will return
SetAdd(set, x) == IF x \in Range(set) THEN set ELSE Append(set, x)

RECURSIVE SetAddAll(_, _)
SetAddAll(set, xs) ==
    IF xs = <<>> THEN set ELSE SetAddAll(SetAdd(set, Head(xs)), Tail(xs))

\* the accounts listActions keeps: Boolean(account.botToken && account.baseUrl)
usableAccount(account) == Truthy(account.botToken) /\ Truthy(account.baseUrl)

\* listActions without the filter on the enabled accounts
listActionsUnfiltered(cfg) ==
    LET accounts == listEnabledMattermostAccounts(cfg)
        reactions == IF createActionGate(cfg.actions, "reactions")
                     THEN <<"react", "reactions">> ELSE <<>>
        messages == IF createActionGate(cfg.actions, "messages")
                    THEN <<"read", "edit", "delete">> ELSE <<>>
        pins == IF createActionGate(cfg.actions, "pins")
                THEN <<"pin", "unpin", "list-pins">> ELSE <<>>
    IN  IF Len(accounts) = 0
        THEN <<>>
        ELSE SetAddAll(SetAddAll(SetAddAll(<<"send">>, reactions), messages), pins)

\* listActions with delete added under the pins gate instead of the messages gate
listActionsDeleteWithPins(cfg) ==
    LET accounts == SelectSeq(listEnabledMattermostAccounts(cfg), usableAccount)
        reactions == IF createActionGate(cfg.actions, "reactions")
                     THEN <<"react", "reactions">> ELSE <<>>
        messages == IF createActionGate(cfg.actions, "messages")
                    THEN <<"read", "edit">> ELSE <<>>
        pins == IF createActionGate(cfg.actions, "pins")
                THEN <<"delete", "pin", "unpin", "list-pins">> ELSE <<>>
    IN  IF Len(accounts) = 0
        THEN <<>>
        ELSE SetAddAll(SetAddAll(SetAddAll(<<"send">>, reactions), messages), pins)

listActions(cfg) ==
    LET accounts == SelectSeq(listEnabledMattermostAccounts(cfg), usableAccount)
        reactions == IF createActionGate(cfg.actions, "reactions")
                     THEN <<"react", "reactions">> ELSE <<>>
        messages == IF createActionGate(cfg.actions, "messages")
                    THEN <<"read", "edit", "delete">> ELSE <<>>
        pins == IF createActionGate(cfg.actions, "pins")
                THEN <<"pin", "unpin", "list-pins">> ELSE <<>>
    IN  IF Len(accounts) = 0
        THEN <<>>
        ELSE SetAddAll(SetAddAll(SetAddAll(<<"send">>, reactions), messages), pins)

(************************ actions.ts: extractToolSend **********************)

SEND_MESSAGE == <<"sendMessage">>

\* extractToolSend comparing the action as given, untrimmed
extractToolSendUntrimmed(args) ==
    LET action == IF args.action.t = "string" THEN args.action.s ELSE <<>>
    IN  IF action = SEND_MESSAGE
        THEN LET to == IF args.to.t = "string" THEN args.to ELSE Undef
             IN  IF Truthy(to) THEN [to |-> to] ELSE Null
        ELSE Null

extractToolSend(args) ==
    LET action == IF args.action.t = "string" THEN Trim(args.action.s) ELSE <<>>
    IN  IF action = SEND_MESSAGE
        THEN LET to == IF args.to.t = "string" THEN args.to ELSE Undef
             IN  IF Truthy(to) THEN [to |-> to] ELSE Null
        ELSE Null


(********************************* inputs **********************************)

\* the longest `order` of a list response
MaxOrder == 2

BLANK == <<" ">>

Pad(s) == <<" ">> \o s \o <<" ">>

\* a parameter given as no value, as white space, as s, and as s in white space
StrVals(s) == {Undef, Str(BLANK), Str(s), Str(Pad(s))}

ParamKeys ==
    {"to", "message", "media", "replyTo", "messageId", "emoji", "remove",
     "channelId", "limit", "before", "after", "accountId"}

NoParams == [k \in ParamKeys |-> Undef]

With(params, fields) ==
    [k \in ParamKeys |-> IF k \in DOMAIN fields THEN fields[k] ELSE params[k]]

Actions ==
    {"send", "react", "reactions", "read", "edit", "delete", "pin", "unpin",
     "list-pins"}

OtherActions == {"unknownAction", "sendMessage"}

ParamsOf(action) ==
    CASE action = "send" ->
            {With(NoParams, [to |-> to, message |-> message,
                             media |-> opt[1], replyTo |-> opt[2]]) :
                to \in StrVals(<<"ch-1">>),
                message \in {Undef, Str(<<>>), Str(<<"hi">>), Str(Pad(<<"hi">>))},
                opt \in {<<Undef, Undef>>,
                         <<Str(Pad(<<"a.png">>)), Str(<<"parent-1">>)>>}}
      [] action = "react" ->
            {With(NoParams, [messageId |-> messageId, emoji |-> emoji,
                             remove |-> remove]) :
                messageId \in StrVals(<<"post-1">>),
                emoji \in {Undef, Str(<<>>), Str(<<"thumbsup">>),
                           Str(Pad(<<"thumbsup">>))},
                remove \in {Undef, Bool(TRUE), Bool(FALSE), Str(<<"true">>)}}
      [] action \in {"reactions", "delete", "pin", "unpin"} ->
            {With(NoParams, [messageId |-> messageId]) :
                messageId \in StrVals(<<"post-1">>)}
      [] action = "edit" ->
            {With(NoParams, [messageId |-> messageId, message |-> message]) :
                messageId \in StrVals(<<"post-1">>),
                message \in {Undef, Str(BLANK), Str(<<"updated text">>)}}
      [] action = "read" ->
            {With(NoParams, [channelId |-> channelId, to |-> to,
                             limit |-> page[1], before |-> page[2],
                             after |-> page[3]]) :
                channelId \in StrVals(<<"explicit-ch">>) \cup {Num(7)},
                to \in {Undef, Str(BLANK), Str(<<"fallback-ch">>)},
                page \in {<<Undef, Undef, Undef>>,
                          <<Num(5), Str(<<"cursor-b">>), Str(<<"cursor-a">>)>>}}
      [] action = "list-pins" ->
            {With(NoParams, [channelId |-> channelId, to |-> to]) :
                channelId \in StrVals(<<"explicit-ch">>),
                to \in {Undef, Str(BLANK), Str(<<"fallback-ch">>)}}
      [] OTHER ->
            {NoParams,
             With(NoParams, [to |-> Str(<<"ch-1">>), message |-> Str(<<"hi">>),
                             messageId |-> Str(<<"post-1">>)])}

\* the account a call names: the accountId of the call's context and of its
\* parameter bag
AccountArgs ==
    {<<ctxId, paramId>> :
        ctxId \in {Undef, Null, Str(<<"work">>)},
        paramId \in {Undef, Str(<<"default">>), Str(Pad(<<"work">>))}}

Account(id, enabled, botToken, baseUrl) ==
    [accountId |-> id, enabled |-> enabled, botToken |-> botToken,
     baseUrl |-> baseUrl]

MM_URL == <<"https:", "/", "/", "mm.test", "/">>

WORK_URL == <<"https:", "/", "/", "work.test">>

DefaultAccounts ==
    {Account(DEFAULT_ACCOUNT_ID, e[1], e[2], e[3]) :
        e \in {<<Undef, Str(<<"bot-tok">>), Str(MM_URL)>>,
               <<Bool(FALSE), Str(<<"bot-tok">>), Str(MM_URL)>>,
               <<Bool(TRUE), Undef, Str(MM_URL)>>,
               <<Undef, Str(<<>>), Str(MM_URL)>>,
               <<Undef, Str(BLANK), Str(MM_URL)>>,
               <<Undef, Str(<<"bot-tok">>), Undef>>,
               <<Undef, Str(<<"bot-tok">>), Str(<<>>)>>,
               <<Undef, Str(<<"bot-tok">>), Str(<<"/", "/">>)>>}}

WorkAccounts ==
    {Account(<<"work">>, e[1], e[2], e[3]) :
        e \in {<<Undef, Str(Pad(<<"work-tok">>)), Str(WORK_URL)>>,
               <<Undef, Str(BLANK), Str(WORK_URL)>>,
               <<Bool(FALSE), Str(<<"work-tok">>), Str(<<"/">>)>>}}

AccountLists ==
    {<<>>} \cup {<<a>> : a \in DefaultAccounts \cup WorkAccounts}
           \cup {<<a, b>> : a \in DefaultAccounts, b \in WorkAccounts}

Flag == {Undef, Bool(TRUE), Bool(FALSE)}

Gates == {"reactions", "messages", "pins"}

ActionsConfigs == {Undef} \cup {[t |-> "object", flags |-> f] : f \in [Gates -> Flag]}

\* every configuration listActions is asked about
Configs ==
    {[enabled |-> enabled, accounts |-> accounts, actions |-> actions] :
        enabled \in Flag, accounts \in AccountLists, actions \in ActionsConfigs}

\* the configurations a dispatch runs under
AllClosed == [t |-> "object", flags |-> [g \in Gates |-> Bool(FALSE)]]

HandlerConfigs ==
    {cfg \in Configs :
        <<cfg.enabled, cfg.actions>> \in {<<Undef, Undef>>, <<Bool(FALSE), AllClosed>>}}

\* a call of handleAction
Call(action, params, cfg, ids) ==
    [action |-> action, params |-> With(params, [accountId |-> ids[2]]),
     cfg |-> cfg, accountId |-> ids[1]]

\* the arguments of a tool call extractToolSend is asked about
ToolArgs ==
    {[action |-> action, to |-> to] :
        action \in {Undef, Null, Bool(TRUE), Str(<<>>), Str(BLANK), Str(SEND_MESSAGE),
                    Str(Pad(SEND_MESSAGE)), Str(<<"react">>), Str(<<"send">>),
                    Str(SEND_MESSAGE \o <<" ", "now">>)},
        to \in {Undef, Null, Bool(TRUE), Arr(<<>>), Str(<<>>), Str(BLANK),
                Str(<<"ch-123">>), Str(Pad(<<"ch-123">>))}}

(**************************** the remote server ****************************)

PostIds == {"p1", "p2", "p3"}

Post(id, user, message, at, root, files) ==
    [id |-> Str(<<id>>), user_id |-> Str(<<user>>), message |-> Str(<<message>>),
     create_at |-> Num(at), root_id |-> root, file_ids |-> files]

PostDB ==
    [id \in PostIds |->
        CASE id = "p1" -> Post("p1", "u1", "first", 1000, Str(<<>>), Arr(<<>>))
          [] id = "p2" -> Post("p2", "u2", "second", 2000, Str(<<"p1">>),
                               Arr(<<Str(<<"f1">>)>>))
          [] id = "p3" -> Post("p3", "u1", "third", 3000, Undef, Undef)]

Orders == UNION {[1..n -> PostIds] : n \in 0..MaxOrder}

\* { order, posts }: the ids in the server's order, and the posts by id
ListReplies ==
    {[order |-> order, posts |-> [id \in ids |-> PostDB[id]]] :
        order \in Orders, ids \in SUBSET PostIds}

Reaction(user, emoji, at) ==
    [user_id |-> Str(<<user>>), emoji_name |-> Str(<<emoji>>), create_at |-> Num(at)]

\* what a remote call may return
Replies(fn) ==
    CASE fn = "sendMessageMattermost" ->
            {[messageId |-> Str(<<"new-msg-1">>), channelId |-> Str(<<"ch-1">>)]}
      [] fn = "fetchMattermostMe" ->
            {[id |-> Str(<<"bot-user-id">>)], [id |-> Str(<<"bot-2">>)]}
      [] fn = "getMattermostReactions" ->
            {Null, Arr(<<>>), Arr(<<Reaction("u1", "thumbsup", 1000)>>),
             Arr(<<Reaction("u2", "heart", 2000), Reaction("u1", "thumbsup", 1000)>>)}
      [] fn \in {"getMattermostChannelPosts", "getPinnedMattermostPosts"} ->
            ListReplies
      [] fn = "updateMattermostPost" ->
            {[id |-> Str(<<"post-1">>), message |-> Str(<<"edited">>)],
             [id |-> Str(<<"post-9">>), message |-> Str(<<>>)]}
      [] OTHER -> {Undef}

\* what a remote call may fail with
RemoteErrors == {Error("RemoteApiError", <<"Mattermost API ", "500">>)}

(******************************* the machine *******************************)
(* The host makes one call at a time in slot "host": listActions, which    *)
(* returns at once, or handleAction, which runs to its first await, is     *)
(* resumed by each remote call that settles, and ends resolved or          *)
(* rejected.  The slot keeps the call's history until the host takes the   *)
(* outcome.                                                                *)

Slots == {"host"}

vars == <<ctx, frame, clients, calls, settles>>

Idle == [pc |-> "idle"]

NoCall == [op |-> "none"]

Init ==
    /\ ctx = [i \in Slots |-> NoCall]
    /\ frame = [i \in Slots |-> Idle]
    /\ clients = [i \in Slots |-> <<>>]
    /\ calls = [i \in Slots |-> <<>>]
    /\ settles = [i \in Slots |-> <<>>]

\* the call a suspended frame has just issued
IssuedCall(f) == [fn |-> f.fn, client |-> f.client, args |-> f.args]

\* listActions({ cfg })
ListActions(i) ==
    /\ frame[i].pc = "idle"
    /\ \E cfg \in Configs :
        /\ ctx' = [ctx EXCEPT ![i] = [op |-> "listActions", cfg |-> cfg]]
        /\ frame' = [frame EXCEPT ![i] = [pc |-> "returned", value |-> listActions(cfg)]]
    /\ UNCHANGED <<clients, calls, settles>>

\* extractToolSend({ args })
ExtractToolSend(i) ==
    /\ frame[i].pc = "idle"
    /\ \E args \in ToolArgs :
        /\ ctx' = [ctx EXCEPT ![i] = [op |-> "extractToolSend", args |-> args]]
        /\ frame' = [frame EXCEPT ![i] = [pc |-> "returned", value |-> extractToolSend(args)]]
    /\ UNCHANGED <<clients, calls, settles>>

\* handleAction({ action, params, cfg, accountId }), to its first await
Invoke(i, c) ==
    LET f == handleMattermostAction(c)
    IN  /\ ctx' = [ctx EXCEPT ![i] = [op |-> "handleAction"] @@ c]
        /\ frame' = [frame EXCEPT ![i] = f]
        /\ clients' = [clients EXCEPT ![i] =
                IF f.pc = "awaiting" /\ f.client # Undef THEN <<f.client>> ELSE <<>>]
        /\ calls' = [calls EXCEPT ![i] =
                IF f.pc = "awaiting" THEN <<IssuedCall(f)>> ELSE <<>>]
        /\ UNCHANGED settles

HandleAction(i) ==
    /\ frame[i].pc = "idle"
    /\ \E action \in Actions \cup OtherActions, cfg \in HandlerConfigs,
          ids \in AccountArgs :
        \E params \in ParamsOf(action) :
            Invoke(i, Call(action, params, cfg, ids))

\* the call awaited settles with `settled` and the dispatcher runs on
Settle(i, settled) ==
    LET f == resumeMattermostAction(frame[i], settled)
    IN  /\ frame' = [frame EXCEPT ![i] = f]
        /\ settles' = [settles EXCEPT ![i] = Append(@, settled)]
        /\ calls' = [calls EXCEPT ![i] =
                IF f.pc = "awaiting" THEN Append(@, IssuedCall(f)) ELSE @]
        /\ UNCHANGED <<ctx, clients>>

RemoteReturn(i) ==
    /\ frame[i].pc = "awaiting"
    /\ \E reply \in Replies(frame[i].fn) : Settle(i, Ok(reply))

RemoteFail(i) ==
    /\ frame[i].pc = "awaiting"
    /\ \E error \in RemoteErrors : Settle(i, Throw(error))

\* the host takes the outcome and the slot is free again
Done(i) ==
    /\ frame[i].pc \in {"returned", "resolved", "rejected"}
    /\ ctx' = [ctx EXCEPT ![i] = NoCall]
    /\ frame' = [frame EXCEPT ![i] = Idle]
    /\ clients' = [clients EXCEPT ![i] = <<>>]
    /\ calls' = [calls EXCEPT ![i] = <<>>]
    /\ settles' = [settles EXCEPT ![i] = <<>>]

Next ==
    \E i \in Slots :
        \/ ListActions(i)
        \/ ExtractToolSend(i)
        \/ HandleAction(i)
        \/ RemoteReturn(i)
        \/ RemoteFail(i)
        \/ Done(i)

Spec == Init /\ [][Next]_vars

(************************* concurrent invocations **************************)
(* handleAction is async: the host may start an invocation while others    *)
(* are suspended at an await, and the remote calls of the invocations in   *)
(* flight settle in any order.                                             *)

Workers == {"w1", "w2"}

\* a configuration with the default account and the work account
TwoAccounts ==
    [enabled |-> Undef,
     accounts |-> <<Account(DEFAULT_ACCOUNT_ID, Undef, Str(<<"bot-tok">>), Str(MM_URL)),
                    Account(<<"work">>, Undef, Str(Pad(<<"work-tok">>)), Str(WORK_URL))>>,
     actions |-> Undef]

\* the calls the host makes concurrently, each under either account
ConcurrentCalls ==
    {Call(e[1], With(NoParams, e[2]), TwoAccounts, <<accountId, Undef>>) :
        e \in {<<"send", [to |-> Str(<<"ch-1">>), message |-> Str(<<"hi">>)]>>,
               <<"react", [messageId |-> Str(<<"post-1">>), emoji |-> Str(<<"thumbsup">>)]>>,
               <<"react", [messageId |-> Str(<<"post-1">>), emoji |-> Str(<<"thumbsup">>),
                           remove |-> Bool(TRUE)]>>,
               <<"reactions", [messageId |-> Str(<<"post-1">>)]>>,
               <<"delete", [messageId |-> Str(<<"post-1">>)]>>,
               <<"list-pins", [channelId |-> Str(<<"explicit-ch">>)]>>},
        accountId \in {Null, Str(<<"work">>)}}

InitConcurrent ==
    /\ ctx = [i \in Workers |-> NoCall]
    /\ frame = [i \in Workers |-> Idle]
    /\ clients = [i \in Workers |-> <<>>]
    /\ calls = [i \in Workers |-> <<>>]
    /\ settles = [i \in Workers |-> <<>>]

HandleActionConcurrently(i) ==
    /\ frame[i].pc = "idle"
    /\ \E c \in ConcurrentCalls : Invoke(i, c)

NextConcurrent ==
    \E i \in Workers :
        \/ HandleActionConcurrently(i)
        \/ RemoteReturn(i)
        \/ RemoteFail(i)
        \/ Done(i)

SpecConcurrent == InitConcurrent /\ [][NextConcurrent]_vars

\* the transport settles every remote call: a call that is awaited
\* eventually returns or fails
RemoteSettles(i) == RemoteReturn(i) \/ RemoteFail(i)

\* one call of every action, and one of no action
SettlingCalls ==
    ConcurrentCalls \cup
    {Call(e[1], With(NoParams, e[2]), TwoAccounts, <<Null, Undef>>) :
        e \in {<<"read", [to |-> Str(<<"fallback-ch">>)]>>,
               <<"edit", [messageId |-> Str(<<"post-1">>),
                          message |-> Str(<<"updated text">>)]>>,
               <<"pin", [messageId |-> Str(<<"post-1">>)]>>,
               <<"unpin", [messageId |-> Str(<<"post-1">>)]>>,
               <<"unknownAction", [messageId |-> Str(<<"post-1">>)]>>}}

HandleActionToSettle(i) ==
    /\ frame[i].pc = "idle"
    /\ \E c \in SettlingCalls : Invoke(i, c)

NextSettling ==
    \E i \in Slots :
        \/ HandleActionToSettle(i)
        \/ RemoteReturn(i)
        \/ RemoteFail(i)
        \/ Done(i)

SpecSettling ==
    Init /\ [][NextSettling]_vars /\ \A i \in Slots : WF_vars(RemoteSettles(i))

(**************************** calls under gates ****************************)
(* The same calls under every setting of cfg.channels.mattermost.actions.   *)

\* the call c under the gate flags `actions`
WithGates(c, actions) == [c EXCEPT !.cfg.actions = actions]

\* one call of every action, a call that fails validation and a call that
\* names an account the configuration does not hold
GatedCalls ==
    SettlingCalls \cup
    {Call("edit", With(NoParams, [messageId |-> Str(<<"post-1">>)]), TwoAccounts,
          <<Null, Undef>>),
     Call("pin", With(NoParams, [messageId |-> Str(<<"post-1">>)]), TwoAccounts,
          <<Str(<<"other">>), Undef>>)}

HandleActionUnderGates(i) ==
    /\ frame[i].pc = "idle"
    /\ \E c \in GatedCalls, actions \in ActionsConfigs : Invoke(i, WithGates(c, actions))

NextGated ==
    \E i \in Slots :
        \/ ListActions(i)
        \/ HandleActionUnderGates(i)
        \/ RemoteReturn(i)
        \/ RemoteFail(i)
        \/ Done(i)

SpecGated == Init /\ [][NextGated]_vars


(********************************* claims **********************************)

Handling(i) == ctx[i].op = "handleAction"

Listing(i) == ctx[i].op = "listActions"

\* a string of white space only, the empty string included
IsBlank(s) == \A k \in 1..Len(s) : s[k] = " "

\* a parameter that is missing (no string at all) or blank
MissingOrBlank(v) == v.t # "string" \/ IsBlank(v.s)

NonEmptyString(v) == v.t = "string" /\ v.s # <<>>

\* an account that is enabled and has a non-empty token and base URL
ValidAccount(cfg, a) ==
    /\ cfg.enabled # Bool(FALSE)
    /\ a.enabled # Bool(FALSE)
    /\ NonEmptyString(a.botToken)
    /\ NonEmptyString(a.baseUrl)

HasValidAccount(cfg) ==
    \E k \in 1..Len(cfg.accounts) : ValidAccount(cfg, cfg.accounts[k])

\* the flag of a gate: absent, true or false
GateFlag(cfg, gate) ==
    IF cfg.actions = Undef THEN Undef ELSE cfg.actions.flags[gate]

\* C1: with no account that is enabled and has a non-empty bot token and a
\* non-empty base URL, listActions returns the empty list whatever the gate
\* flags are; send is not advertised.
C1_NoAccountNoActions ==
    \A i \in Slots :
        Listing(i) /\ ~HasValidAccount(ctx[i].cfg) => frame[i].value = <<>>

\* C1 witness: listActions has answered a configuration whose accounts are
\* all unusable while no gate is closed
C1_Witness ==
    \E i \in Slots :
        /\ Listing(i)
        /\ Len(ctx[i].cfg.accounts) = 2
        /\ ~HasValidAccount(ctx[i].cfg)
        /\ ctx[i].cfg.enabled = Undef
        /\ ctx[i].cfg.actions = Undef
        /\ frame[i].value = <<>>

GroupOf(gate) ==
    CASE gate = "reactions" -> {"react", "reactions"}
      [] gate = "messages" -> {"read", "edit", "delete"}
      [] gate = "pins" -> {"pin", "unpin", "list-pins"}

Advertised(cfg) ==
    {"send"} \cup UNION {GroupOf(g) : g \in {h \in Gates : GateFlag(cfg, h) # Bool(FALSE)}}

\* C2: with at least one valid account, listActions returns exactly send
\* plus the group of every gate whose flag is not false, each name once.
C2_ExactlyTheOpenGroups ==
    \A i \in Slots :
        Listing(i) /\ HasValidAccount(ctx[i].cfg) =>
            /\ Range(frame[i].value) = Advertised(ctx[i].cfg)
            /\ Len(frame[i].value) = Cardinality(Advertised(ctx[i].cfg))

\* C2 witness: only the messages gate is closed, and the six actions of the
\* other groups and send are returned
C2_Witness ==
    \E i \in Slots :
        /\ Listing(i)
        /\ HasValidAccount(ctx[i].cfg)
        /\ GateFlag(ctx[i].cfg, "messages") = Bool(FALSE)
        /\ GateFlag(ctx[i].cfg, "reactions") = Bool(TRUE)
        /\ GateFlag(ctx[i].cfg, "pins") = Undef
        /\ Range(frame[i].value) =
                {"send", "react", "reactions", "pin", "unpin", "list-pins"}

\* C3: handleAction with an action name outside the nine rejects with an
\* error that says "not supported" and names the action, and resolves no
\* client, calls no send collaborator and issues no remote call.
C3_UnsupportedActionRejected ==
    \A i \in Slots :
        Handling(i) /\ ctx[i].action \notin Actions =>
            /\ frame[i].pc = "rejected"
            /\ Mentions(frame[i].error.message, "not supported")
            /\ Mentions(frame[i].error.message, ctx[i].action)
            /\ clients[i] = <<>>
            /\ calls[i] = <<>>

\* C3 witness: an unlisted action called with parameters that would do for
\* send, under a configuration whose default account is usable
C3_Witness ==
    \E i \in Slots :
        /\ Handling(i)
        /\ ctx[i].action = "sendMessage"
        /\ ctx[i].params["to"] = Str(<<"ch-1">>)
        /\ HasValidAccount(ctx[i].cfg)
        /\ frame[i].pc = "rejected"

\* the fields the validation of an action finds missing: for read and
\* list-pins the channel is missing when channelId and to both are
MissingFields(action, params) ==
    LET required ==
            CASE action = "send" -> {"to"}
              [] action = "edit" -> {"messageId", "message"}
              [] action \in {"read", "list-pins"} ->
                    IF MissingOrBlank(params["channelId"]) THEN {"to"} ELSE {}
              [] OTHER -> {"messageId"}
    IN  {key \in required : MissingOrBlank(params[key])}

\* C4: a supported action with a required string parameter missing or blank
\* rejects with an error naming a missing field, and that call resolves no
\* client, calls no send collaborator and issues no remote call: validation
\* precedes the first remote call.
C4_ValidationBeforeRemoteCalls ==
    \A i \in Slots :
        Handling(i) /\ ctx[i].action \in Actions
            /\ MissingFields(ctx[i].action, ctx[i].params) # {} =>
            /\ frame[i].pc = "rejected"
            /\ \E key \in MissingFields(ctx[i].action, ctx[i].params) :
                    Mentions(frame[i].error.message, key)
            /\ clients[i] = <<>>
            /\ calls[i] = <<>>
            /\ settles[i] = <<>>

\* C4 witness: edit with a messageId and a blank message, under a usable
\* default account, is rejected naming message
C4_Witness ==
    \E i \in Slots :
        /\ Handling(i)
        /\ ctx[i].action = "edit"
        /\ ctx[i].params["messageId"] = Str(<<"post-1">>)
        /\ ctx[i].params["message"] = Str(BLANK)
        /\ Nullish(ctx[i].accountId) /\ ctx[i].params["accountId"] = Undef
        /\ HasValidAccount(ctx[i].cfg)
        /\ frame[i].pc = "rejected"
        /\ Mentions(frame[i].error.message, "message")


ReactionCalls == {"addMattermostReaction", "removeMattermostReaction"}

\* params.remove is the boolean true
RemoveIsTrue(params) == params["remove"] = Bool(TRUE)

\* a string parameter with the white space around it trimmed
Trimmed(v) == Str(Trim(v.s))

\* the order of react's calls: a reaction call is the second call of its
\* invocation, made after the identity fetch, the first, has returned; so
\* there is one reaction call at most, never an add and a remove
ReactOrder(i) ==
    /\ Len(calls[i]) <= 2
    /\ \A k \in 1..Len(calls[i]) :
            calls[i][k].fn \in ReactionCalls =>
                /\ k = 2
                /\ calls[i][1].fn = "fetchMattermostMe"
                /\ Len(settles[i]) >= 1
                /\ ~settles[i][1].thrown

\* a successful react whose reaction call carried messageId and emoji
ReactSucceeded(i, messageId, emoji) ==
    /\ Len(calls[i]) = 2
    /\ Len(settles[i]) = 2
    /\ calls[i][1].fn = "fetchMattermostMe"
    /\ calls[i][2].fn = IF RemoveIsTrue(ctx[i].params)
                        THEN "removeMattermostReaction"
                        ELSE "addMattermostReaction"
    /\ calls[i][2].args = [userId |-> settles[i][1].v.id, postId |-> messageId,
                           emojiName |-> emoji]
    /\ calls[i][2].client = calls[i][1].client
    /\ frame[i].result.details =
            IF RemoveIsTrue(ctx[i].params)
            THEN [ok |-> Bool(TRUE), removed |-> Bool(TRUE), emoji |-> emoji]
            ELSE [ok |-> Bool(TRUE), added |-> emoji]

\* C5 as stated: a successful react has made one identity fetch and then one
\* reaction call carrying the fetched user id, the messageId given and the
\* emoji given (add unless remove is true, then remove), with the matching
\* result.  It fails: the values carried are the ones given with the white
\* space around them trimmed.
C5_AsStated ==
    \A i \in Slots :
        Handling(i) /\ ctx[i].action = "react" =>
            /\ ReactOrder(i)
            /\ frame[i].pc = "resolved" =>
                    ReactSucceeded(i, ctx[i].params["messageId"],
                                   ctx[i].params["emoji"])

\* C5 amended: a successful react has made one identity fetch and then
\* exactly one reaction call, carrying the user id that fetch returned, the
\* trimmed messageId as post id and the trimmed emoji: an add with result
\* {ok, added: emoji} unless remove is true, a remove with result
\* {ok, removed: true, emoji} when it is; never both, and never a reaction
\* call before the identity fetch has returned.
C5_ReactFetchesThenReacts ==
    \A i \in Slots :
        Handling(i) /\ ctx[i].action = "react" =>
            /\ ReactOrder(i)
            /\ frame[i].pc = "resolved" =>
                    ReactSucceeded(i, Trimmed(ctx[i].params["messageId"]),
                                   Trimmed(ctx[i].params["emoji"]))

\* C5 witness: a react with remove: true has succeeded as the second bot
\* user, its messageId and emoji given with white space around them
C5_Witness ==
    \E i \in Slots :
        /\ Handling(i)
        /\ ctx[i].action = "react"
        /\ frame[i].pc = "resolved"
        /\ RemoveIsTrue(ctx[i].params)
        /\ ctx[i].params["messageId"] = Str(Pad(<<"post-1">>))
        /\ ctx[i].params["emoji"] = Str(Pad(<<"thumbsup">>))
        /\ calls[i][2].args.userId = Str(<<"bot-2">>)
        /\ calls[i][2].args.postId = Str(<<"post-1">>)

\* a react rejected before any call, with an error mentioning word
RejectedMentioning(i, word) ==
    /\ frame[i].pc = "rejected"
    /\ Mentions(frame[i].error.message, word)
    /\ calls[i] = <<>>
    /\ clients[i] = <<>>

\* C6 as stated: react without an emoji rejects mentioning emoji, react
\* without a messageId rejects mentioning messageId, and neither issues a
\* call.  It fails when both are missing: the messageId is read first and
\* the error mentions it alone.
C6_AsStated ==
    \A i \in Slots :
        Handling(i) /\ ctx[i].action = "react" =>
            /\ ctx[i].params["emoji"] = Undef => RejectedMentioning(i, "emoji")
            /\ ctx[i].params["messageId"] = Undef => RejectedMentioning(i, "messageId")

\* C6 amended: react with a messageId that is not blank and no emoji (with
\* or without remove: true) rejects mentioning emoji; react without a
\* messageId rejects mentioning messageId; in both cases no identity fetch
\* and no add or remove call is issued.
C6_ReactValidatesBeforeCalls ==
    \A i \in Slots :
        Handling(i) /\ ctx[i].action = "react" =>
            /\ ctx[i].params["emoji"] = Undef
                    /\ ~MissingOrBlank(ctx[i].params["messageId"])
                    => RejectedMentioning(i, "emoji")
            /\ ctx[i].params["messageId"] = Undef => RejectedMentioning(i, "messageId")

\* C6 witness: react with a messageId, remove: true and no emoji, under a
\* usable account, has been rejected mentioning emoji
C6_Witness ==
    \E i \in Slots :
        /\ Handling(i)
        /\ ctx[i].action = "react"
        /\ ctx[i].params["messageId"] = Str(<<"post-1">>)
        /\ ctx[i].params["emoji"] = Undef
        /\ RemoveIsTrue(ctx[i].params)
        /\ HasValidAccount(ctx[i].cfg)
        /\ RejectedMentioning(i, "emoji")

\* C7: once a remote call of an invocation has failed, the invocation is
\* rejected with that error, has no result, and issued no call after it; a
\* react whose identity fetch failed has issued no reaction call.
C7_NoPartialSuccess ==
    \A i \in Slots :
        Handling(i) =>
            \A k \in 1..Len(settles[i]) :
                settles[i][k].thrown =>
                    /\ k = Len(settles[i])
                    /\ Len(calls[i]) = k
                    /\ frame[i].pc = "rejected"
                    /\ frame[i].error = settles[i][k].error

\* C7 witness: a react with remove: true whose identity fetch returned and
\* whose remove call failed
C7_Witness ==
    \E i \in Slots :
        /\ Handling(i)
        /\ ctx[i].action = "react"
        /\ Len(settles[i]) = 2
        /\ settles[i][2].thrown
        /\ calls[i][2].fn = "removeMattermostReaction"
        /\ frame[i].pc = "rejected"


\* the account id a call asks for: the accountId of its context, else the
\* accountId of its parameter bag, else none
RequestedAccountId(c) ==
    IF ~Nullish(c.accountId) THEN c.accountId
    ELSE IF MissingOrBlank(c.params["accountId"]) THEN Undef
    ELSE Trimmed(c.params["accountId"])

\* the account resolved for a call
ResolvedAccount(c) == resolveMattermostAccount(c.cfg, RequestedAccountId(c))

AllSlashes(s) == \A k \in 1..Len(s) : s[k] = "/"

\* the credentials an account lacks: a token that is missing, empty or
\* white space, a base URL that is missing or empty once its trailing
\* slashes are stripped
MissingCredentials(a) ==
    (IF MissingOrBlank(a.botToken) THEN {"bot token"} ELSE {})
    \cup (IF a.baseUrl.t # "string" \/ AllSlashes(a.baseUrl.s) THEN {"baseUrl"} ELSE {})

\* the call was rejected naming a credential the account lacks and the
\* account id, with no client created and no remote call issued
RejectedNamingCredential(i, a) ==
    /\ frame[i].pc = "rejected"
    /\ \E credential \in MissingCredentials(a) :
            Mentions(frame[i].error.message, credential)
    /\ \A k \in 1..Len(a.accountId) : Mentions(frame[i].error.message, a.accountId[k])
    /\ clients[i] = <<>>
    /\ calls[i] = <<>>

\* every remote call issued uses a client the call created, built from a
\* token that is not blank and a base URL that is not empty and is normalized
ClientsAreSound(i) ==
    \A k \in 1..Len(calls[i]) :
        calls[i][k].fn # "sendMessageMattermost" =>
            /\ calls[i][k].client \in Range(clients[i])
            /\ ~IsBlank(calls[i][k].client.token)
            /\ calls[i][k].client.baseUrl # <<>>
            /\ calls[i][k].client.baseUrl[Len(calls[i][k].client.baseUrl)] # "/"

\* the parameters of a supported action pass its validation
ParamsPassValidation(action, params) ==
    /\ MissingFields(action, params) = {}
    /\ action = "react" =>
            /\ params["emoji"].t = "string"
            /\ RemoveIsTrue(params) => ~IsBlank(params["emoji"].s)

\* C8 as stated: for every action but send, a call whose account lacks a
\* credential is rejected naming the credential and the account id, with no
\* client and no remote call.  It fails when a required parameter is
\* missing too: the parameters are validated first and the error names the
\* parameter instead.
C8_AsStated ==
    \A i \in Slots :
        Handling(i) /\ ctx[i].action \in Actions \ {"send"} =>
            /\ ClientsAreSound(i)
            /\ ~ResolvedAccount(ctx[i]).thrown
                    /\ MissingCredentials(ResolvedAccount(ctx[i]).v) # {}
                    => RejectedNamingCredential(i, ResolvedAccount(ctx[i]).v)

\* C8 amended: for every supported action but send whose parameters pass
\* validation, a call whose account has a missing, empty or white-space
\* token, or a base URL that is missing or empty once its trailing slashes
\* are stripped, is rejected naming the missing credential and the account
\* id, with no client created and no remote call issued; and every remote
\* call that is issued uses a client built from a non-empty token and a
\* non-empty normalized base URL.
C8_NoClientWithoutCredentials ==
    \A i \in Slots :
        Handling(i) =>
            /\ ClientsAreSound(i)
            /\ ctx[i].action \in Actions \ {"send"}
                    /\ ParamsPassValidation(ctx[i].action, ctx[i].params)
                    /\ ~ResolvedAccount(ctx[i]).thrown
                    /\ MissingCredentials(ResolvedAccount(ctx[i]).v) # {}
                    => RejectedNamingCredential(i, ResolvedAccount(ctx[i]).v)

\* C8 witness: a read with a channelId, asked of the work account, whose
\* token is white space, has been rejected naming the bot token
C8_Witness ==
    \E i \in Slots :
        /\ Handling(i)
        /\ ctx[i].action = "read"
        /\ ctx[i].params["channelId"] = Str(<<"explicit-ch">>)
        /\ ctx[i].accountId = Str(<<"work">>)
        /\ ~ResolvedAccount(ctx[i]).thrown
        /\ ResolvedAccount(ctx[i]).v.botToken = Str(BLANK)
        /\ frame[i].pc = "rejected"
        /\ Mentions(frame[i].error.message, "bot token")
        /\ Mentions(frame[i].error.message, "work")

ChannelActions == {"read", "list-pins"}

\* the call's channel: the one its remote call carries, and the one its
\* result echoes once it has one
ChannelIs(i, channel) ==
    /\ calls[i][1].args.channelId = channel
    /\ frame[i].pc = "resolved" => frame[i].result.details.channelId = channel

\* C9 as stated: the channel is the channelId parameter when that is present
\* and not blank; it is the to parameter only when channelId is absent; with
\* both absent the call rejects naming to.  It fails: a channelId given in
\* white space is used trimmed, and a channelId that is blank, or no string,
\* gives way to the to parameter.
C9_AsStated ==
    \A i \in Slots :
        Handling(i) /\ ctx[i].action \in ChannelActions =>
            /\ calls[i] # <<>> /\ ~MissingOrBlank(ctx[i].params["channelId"])
                    => ChannelIs(i, ctx[i].params["channelId"])
            /\ calls[i] # <<>> /\ ctx[i].params["channelId"] = Undef
                    => ChannelIs(i, ctx[i].params["to"])
            /\ calls[i] # <<>> /\ calls[i][1].args.channelId = ctx[i].params["to"]
                    => ctx[i].params["channelId"] = Undef
            /\ ctx[i].params["channelId"] = Undef /\ ctx[i].params["to"] = Undef
                    => RejectedMentioning(i, "to")

\* C9 amended: for read and list-pins the channel of the remote call, echoed
\* as channelId in the result, is the channelId parameter, trimmed, whenever
\* that is a string that is not blank, even when to is present too; it is the
\* to parameter, trimmed, only when channelId is absent, blank or no string;
\* and when neither gives a channel the call rejects naming to.
C9_ChannelIdBeforeTo ==
    \A i \in Slots :
        Handling(i) /\ ctx[i].action \in ChannelActions =>
            /\ calls[i] # <<>> /\ ~MissingOrBlank(ctx[i].params["channelId"])
                    => ChannelIs(i, Trimmed(ctx[i].params["channelId"]))
            /\ calls[i] # <<>> /\ MissingOrBlank(ctx[i].params["channelId"])
                    => ChannelIs(i, Trimmed(ctx[i].params["to"]))
            /\ MissingOrBlank(ctx[i].params["channelId"])
                    /\ MissingOrBlank(ctx[i].params["to"])
                    => RejectedMentioning(i, "to")

\* C9 witness: a read given both channelId and to has resolved with the
\* channelId as its channel
C9_Witness ==
    \E i \in Slots :
        /\ Handling(i)
        /\ ctx[i].action = "read"
        /\ ctx[i].params["channelId"] = Str(<<"explicit-ch">>)
        /\ ctx[i].params["to"] = Str(<<"fallback-ch">>)
        /\ frame[i].pc = "resolved"
        /\ calls[i][1].args.channelId = Str(<<"explicit-ch">>)
        /\ frame[i].result.details.channelId = Str(<<"explicit-ch">>)

\* the normalization of posts[id]: the four fields under the host's names,
\* each undefined when the mapping holds no such post
Normalized(posts, id) ==
    IF id \in DOMAIN posts
    THEN [id |-> posts[id].id, userId |-> posts[id].user_id,
          message |-> posts[id].message, createdAt |-> posts[id].create_at]
    ELSE [id |-> Undef, userId |-> Undef, message |-> Undef, createdAt |-> Undef]

\* the four fields of an entry of the result
Core(entry) ==
    [id |-> entry.id, userId |-> entry.userId, message |-> entry.message,
     createdAt |-> entry.createdAt]

\* the entries a resolved read or list-pins returned
Entries(i) ==
    IF ctx[i].action = "read"
    THEN frame[i].result.details.messages.items
    ELSE frame[i].result.details.pins.items

\* C10: a resolved read or list-pins returns one entry per element of the
\* response's order, the k-th being the normalization of posts[order[k]],
\* so the server's order is kept; a post of the mapping that order leaves
\* out is not returned.
C10_ServerOrderKept ==
    \A i \in Slots :
        Handling(i) /\ ctx[i].action \in ChannelActions /\ frame[i].pc = "resolved" =>
            LET reply == settles[i][1].v
            IN  /\ Len(Entries(i)) = Len(reply.order)
                /\ \A k \in 1..Len(reply.order) :
                        Core(Entries(i)[k]) = Normalized(reply.posts, reply.order[k])
                /\ \A id \in DOMAIN reply.posts \ Range(reply.order) :
                        \A k \in 1..Len(Entries(i)) : Entries(i)[k].id # Str(<<id>>)

\* C10 witness: a read has resolved a response that orders p2 before p1 and
\* whose mapping holds p3 as well
C10_Witness ==
    \E i \in Slots :
        /\ Handling(i)
        /\ ctx[i].action = "read"
        /\ frame[i].pc = "resolved"
        /\ settles[i][1].v.order = <<"p2", "p1">>
        /\ DOMAIN settles[i][1].v.posts = PostIds
        /\ Len(Entries(i)) = 2
        /\ Entries(i)[1].id = Str(<<"p2">>)


\* a send with a to and a message to pass on
SendHasToAndMessage(i) ==
    /\ Handling(i)
    /\ ctx[i].action = "send"
    /\ ~MissingOrBlank(ctx[i].params["to"])
    /\ ctx[i].params["message"].t = "string"

\* the send was delegated: no client resolved, one call in all, to the send
\* collaborator, with (to, message, {accountId, mediaUrl, replyToId}); and
\* once the collaborator has returned, the result is its result with ok: true
SendDelegated(i, to, message, mediaUrl, replyToId) ==
    /\ clients[i] = <<>>
    /\ Len(calls[i]) = 1
    /\ calls[i][1] =
            [fn |-> "sendMessageMattermost", client |-> Undef,
             args |-> [to |-> to, message |-> message,
                       accountId |-> RequestedAccountId(ctx[i]),
                       mediaUrl |-> mediaUrl, replyToId |-> replyToId]]
    /\ frame[i].pc \in {"awaiting", "resolved", "rejected"}
    /\ frame[i].pc = "rejected" => Len(settles[i]) = 1 /\ settles[i][1].thrown
    /\ frame[i].pc = "resolved" =>
            LET details == frame[i].result.details
                reply == settles[i][1].v
            IN  /\ DOMAIN details = DOMAIN reply \cup {"ok"}
                /\ details.ok = Bool(TRUE)
                /\ \A field \in DOMAIN reply : details[field] = reply[field]

\* C11 as stated: a send with a to and a message calls the send collaborator
\* once with the to and the message of its parameters and the options read
\* from media and replyTo.  It fails: a to or a message given in white space
\* is passed on trimmed.
C11_AsStated ==
    \A i \in Slots :
        SendHasToAndMessage(i) =>
            SendDelegated(i, ctx[i].params["to"], ctx[i].params["message"],
                          ctx[i].params["media"], ctx[i].params["replyTo"])

\* C11 amended: a send with a to that is not blank and a message (an empty
\* one is accepted) calls the send collaborator exactly once with the to
\* trimmed, the message trimmed and the options {accountId, mediaUrl: media
\* as given, replyToId: replyTo trimmed}, and returns {ok: true} merged with
\* the collaborator's result; it resolves no client and issues no other call.
C11_SendDelegatesOnce ==
    \A i \in Slots :
        SendHasToAndMessage(i) =>
            SendDelegated(i, Trimmed(ctx[i].params["to"]),
                          Trimmed(ctx[i].params["message"]),
                          IF NonEmptyString(ctx[i].params["media"])
                          THEN ctx[i].params["media"] ELSE Undef,
                          IF MissingOrBlank(ctx[i].params["replyTo"])
                          THEN Undef ELSE Trimmed(ctx[i].params["replyTo"]))

\* C11 witness: a send with an empty message, a media and a replyTo has
\* resolved with the collaborator's messageId
C11_Witness ==
    \E i \in Slots :
        /\ SendHasToAndMessage(i)
        /\ ctx[i].params["message"] = Str(<<>>)
        /\ ctx[i].params["media"] = Str(Pad(<<"a.png">>))
        /\ frame[i].pc = "resolved"
        /\ calls[i][1].args.mediaUrl = Str(Pad(<<"a.png">>))
        /\ calls[i][1].args.replyToId = Str(<<"parent-1">>)
        /\ frame[i].result.details.messageId = Str(<<"new-msg-1">>)


\* the id of the account a call is to use: the accountId supplied with the
\* call; only when that is null or undefined the accountId of the
\* parameters; and the default account when neither is given
AccountIdToUse(c) ==
    IF ~Nullish(c.accountId) THEN c.accountId.s
    ELSE IF ~MissingOrBlank(c.params["accountId"]) THEN Trim(c.params["accountId"].s)
    ELSE DEFAULT_ACCOUNT_ID

\* the client was built from the credentials of the account named id
ClientOfAccount(cfg, id, client) ==
    \E k \in 1..Len(cfg.accounts) :
        /\ cfg.accounts[k].accountId = id
        /\ cfg.accounts[k].botToken.t = "string"
        /\ cfg.accounts[k].baseUrl.t = "string"
        /\ client.token = Trim(cfg.accounts[k].botToken.s)
        /\ client.baseUrl = StripTrailingSlashes(cfg.accounts[k].baseUrl.s)

\* C12: the account an invocation uses is the one named by the accountId
\* supplied with the call whenever one is supplied, even when
\* params.accountId names another; params.accountId is used only when the
\* supplied accountId is null or undefined; and the default account is
\* resolved when neither is given.  The account used shows in the client the
\* invocation builds, or in the error that names the account it could not
\* use; a send hands the account id to the send collaborator.
C12_SuppliedAccountFirst ==
    \A i \in Slots :
        Handling(i) /\ ctx[i].action \in Actions
            /\ ParamsPassValidation(ctx[i].action, ctx[i].params)
            /\ (ctx[i].action = "send" => SendHasToAndMessage(i)) =>
            IF ctx[i].action = "send"
            THEN /\ calls[i] # <<>>
                 /\ calls[i][1].args.accountId =
                        IF RequestedAccountId(ctx[i]) = Undef
                        THEN Undef ELSE Str(AccountIdToUse(ctx[i]))
            ELSE \/ /\ Len(clients[i]) = 1
                    /\ ClientOfAccount(ctx[i].cfg, AccountIdToUse(ctx[i]), clients[i][1])
                    /\ \A k \in 1..Len(calls[i]) : calls[i][k].client = clients[i][1]
                 \/ /\ clients[i] = <<>>
                    /\ calls[i] = <<>>
                    /\ frame[i].pc = "rejected"
                    /\ \A k \in 1..Len(AccountIdToUse(ctx[i])) :
                            Mentions(frame[i].error.message, AccountIdToUse(ctx[i])[k])

\* C12 witness: a read supplied with the account work, whose parameters name
\* the default account, runs with the client of the work account, both
\* accounts being configured with credentials
C12_Witness ==
    \E i \in Slots :
        /\ Handling(i)
        /\ ctx[i].action = "read"
        /\ ctx[i].accountId = Str(<<"work">>)
        /\ ctx[i].params["accountId"] = Str(<<"default">>)
        /\ Len(ctx[i].cfg.accounts) = 2
        /\ ctx[i].cfg.accounts[1].botToken = Str(<<"bot-tok">>)
        /\ ctx[i].cfg.accounts[1].baseUrl = Str(MM_URL)
        /\ Len(clients[i]) = 1
        /\ clients[i][1].token = <<"work-tok">>
        /\ clients[i][1].baseUrl = WORK_URL


Extracting(i) == ctx[i].op = "extractToolSend"

\* args names a send: its action is a string that is sendMessage once
\* trimmed, and its to is a string that is not empty
NamesSend(args) ==
    /\ args.action.t = "string"
    /\ Trim(args.action.s) = <<"sendMessage">>
    /\ args.to.t = "string"
    /\ args.to.s # <<>>

\* C13: extractToolSend returns {to: args.to} exactly when args.action is a
\* string equal to sendMessage after trimming and args.to is a non-empty
\* string; for every other input it returns null; it never throws.
C13_ExtractsSendTarget ==
    \A i \in Slots :
        Extracting(i) =>
            /\ frame[i].pc = "returned"
            /\ NamesSend(ctx[i].args) => frame[i].value = [to |-> ctx[i].args.to]
            /\ ~NamesSend(ctx[i].args) => frame[i].value = Null

\* C13 witness: a sendMessage given in white space, with a to given in white
\* space, has returned that to as given
C13_Witness ==
    \E i \in Slots :
        /\ Extracting(i)
        /\ ctx[i].args.action = Str(Pad(<<"sendMessage">>))
        /\ ctx[i].args.to = Str(Pad(<<"ch-123">>))
        /\ frame[i].value = [to |-> Str(Pad(<<"ch-123">>))]


\* the dispatcher run alone on the call c, its remote calls settling as ss
RECURSIVE Resumed(_, _)
Resumed(f, ss) ==
    IF ss = <<>> \/ f.pc # "awaiting"
    THEN f
    ELSE Resumed(resumeMattermostAction(f, Head(ss)), Tail(ss))

RunAlone(c, ss) == Resumed(handleMattermostAction(c), ss)

\* the remote calls of that run, in order
RECURSIVE IssuedBy(_, _)
IssuedBy(f, ss) ==
    IF f.pc # "awaiting" THEN <<>>
    ELSE IF ss = <<>> THEN <<IssuedCall(f)>>
    ELSE <<IssuedCall(f)>> \o IssuedBy(resumeMattermostAction(f, Head(ss)), Tail(ss))

CallsAlone(c, ss) == IssuedBy(handleMattermostAction(c), ss)

\* the call of an invocation, as the host made it
CallOf(i) ==
    [action |-> ctx[i].action, params |-> ctx[i].params, cfg |-> ctx[i].cfg,
     accountId |-> ctx[i].accountId]

\* C14: under every interleaving of the steps of the invocations in flight,
\* each invocation that needs a client has built one client, from the
\* credentials of its own account; every remote call of the invocation, both
\* calls of a react included, carries that client; and the invocation's
\* calls and its result or error are those of the same call run alone with
\* the same responses to its own remote calls.
C14_InvocationsDoNotInterfere ==
    \A i \in Workers :
        Handling(i) =>
            /\ ctx[i].action # "send" =>
                    /\ Len(clients[i]) = 1
                    /\ ClientOfAccount(ctx[i].cfg, AccountIdToUse(ctx[i]), clients[i][1])
                    /\ \A k \in 1..Len(calls[i]) : calls[i][k].client = clients[i][1]
            /\ ctx[i].action = "send" => clients[i] = <<>>
            /\ frame[i] = RunAlone(CallOf(i), settles[i])
            /\ calls[i] = CallsAlone(CallOf(i), settles[i])

\* C14 witness: a react under the work account has made its second call
\* while a react under the default account, started before that call, is
\* still waiting for its identity fetch; each call carries its own client
C14_Witness ==
    \E i, j \in Workers :
        /\ i # j
        /\ Handling(i) /\ Handling(j)
        /\ ctx[i].action = "react" /\ ctx[j].action = "react"
        /\ ctx[i].accountId = Str(<<"work">>) /\ ctx[j].accountId = Null
        /\ Len(calls[i]) = 2 /\ frame[i].pc = "awaiting"
        /\ Len(calls[j]) = 1 /\ frame[j].pc = "awaiting"
        /\ calls[i][2].client.token = <<"work-tok">>
        /\ calls[j][1].client.token = <<"bot-tok">>


\* the remote calls of an invocation are bounded and none is made twice: a
\* react makes an identity fetch and then a reaction call at most, every
\* other action one call at most, and a call that failed is the last one
CallsBounded(i) ==
    /\ Len(settles[i]) <= Len(calls[i])
    /\ \A k, m \in 1..Len(calls[i]) : k # m => calls[i][k].fn # calls[i][m].fn
    /\ \A k \in 1..Len(settles[i]) : settles[i][k].thrown => k = Len(calls[i])
    /\ IF ctx[i].action = "react"
       THEN /\ Len(calls[i]) <= 2
            /\ Len(calls[i]) >= 1 => calls[i][1].fn = "fetchMattermostMe"
            /\ Len(calls[i]) = 2 => calls[i][2].fn \in ReactionCalls
       ELSE Len(calls[i]) <= 1

\* the invocation is over, with a result or with an error
Completed(i) == frame[i].pc \in {"resolved", "rejected"}

\* C15: no remote call is retried and every invocation issues a bounded
\* number of remote calls, two at most for react (an identity fetch, then a
\* reaction call) and one at most for every other action, whether the calls
\* succeed or fail; and provided every remote call eventually returns or
\* fails, every invocation that is waiting for one eventually completes,
\* with a result or with an error.
C15_BoundedCallsAndCompletion ==
    /\ [](\A i \in Slots : Handling(i) => CallsBounded(i))
    /\ \A i \in Slots : (frame[i].pc = "awaiting") ~> Completed(i)

\* C15 witness: a react whose identity fetch returned and whose reaction
\* call failed has completed with that error after two calls
C15_Witness ==
    \E i \in Slots :
        /\ Handling(i)
        /\ ctx[i].action = "react"
        /\ Len(calls[i]) = 2
        /\ Len(settles[i]) = 2
        /\ settles[i][2].thrown
        /\ frame[i].pc = "rejected"


\* the remote post has a root_id that is not empty; a file_ids list that is
\* not empty
HasRootId(posts, id) == id \in DOMAIN posts /\ NonEmptyString(posts[id].root_id)

HasFileIds(posts, id) ==
    /\ id \in DOMAIN posts
    /\ posts[id].file_ids.t = "array"
    /\ posts[id].file_ids.items # <<>>

\* C16: in the serialized result of a read, a message carries a rootId
\* exactly when the remote post has a non-empty root_id, and then that one,
\* and a fileIds exactly when the remote post has a non-empty file_ids list,
\* and then that list; when root_id is missing or empty, or file_ids is
\* missing or empty, the field is left out, never emitted as an empty
\* string, an empty list or another falsy value.
C16_EmptyOptionalsOmitted ==
    \A i \in Slots :
        Handling(i) /\ ctx[i].action = "read" /\ frame[i].pc = "resolved" =>
            LET reply == settles[i][1].v
            IN  \A k \in 1..Len(Entries(i)) :
                    LET wire == JSONStringify(Entries(i)[k])
                        id == reply.order[k]
                    IN  /\ "rootId" \in DOMAIN wire <=> HasRootId(reply.posts, id)
                        /\ "rootId" \in DOMAIN wire =>
                                wire.rootId = reply.posts[id].root_id
                        /\ "fileIds" \in DOMAIN wire <=> HasFileIds(reply.posts, id)
                        /\ "fileIds" \in DOMAIN wire =>
                                wire.fileIds = reply.posts[id].file_ids

\* C16 witness: a read has resolved a response listing p1, whose root_id and
\* file_ids are empty, and p2, which has both: the first message carries
\* neither field, the second both
C16_Witness ==
    \E i \in Slots :
        /\ Handling(i)
        /\ ctx[i].action = "read"
        /\ frame[i].pc = "resolved"
        /\ settles[i][1].v.order = <<"p1", "p2">>
        /\ DOMAIN settles[i][1].v.posts = PostIds
        /\ DOMAIN JSONStringify(Entries(i)[1]) = {"id", "userId", "message", "createdAt"}
        /\ JSONStringify(Entries(i)[2]).rootId = Str(<<"p1">>)
        /\ JSONStringify(Entries(i)[2]).fileIds = Arr(<<Str(<<"f1">>)>>)


\* C17: handleAction never consults the gates: whatever the reactions,
\* messages and pins flags of the configuration are set to, the same call
\* with the same responses issues the same remote calls and ends in the same
\* result or error; so an action whose gate is false, which listActions does
\* not advertise, is executed all the same.
C17_GatesNotConsulted ==
    \A i \in Slots :
        Handling(i) =>
            \A actions \in ActionsConfigs :
                /\ frame[i] = RunAlone(WithGates(CallOf(i), actions), settles[i])
                /\ calls[i] = CallsAlone(WithGates(CallOf(i), actions), settles[i])

\* C17 witness: under a configuration whose gates are all false, whose
\* listActions advertises no delete, a delete has been executed and has
\* resolved
C17_Witness ==
    \E i \in Slots :
        /\ Handling(i)
        /\ ctx[i].action = "delete"
        /\ ctx[i].cfg.actions = AllClosed
        /\ Range(listActions(ctx[i].cfg)) = {"send"}
        /\ Len(calls[i]) = 1
        /\ calls[i][1].fn = "deleteMattermostPost"
        /\ frame[i].pc = "resolved"
        /\ frame[i].result.details.deleted = Bool(TRUE)

=============================================================================
